---- MODULE Spec2Model ----
(***************************************************************************)
(* State-machine model of src/bot.py (class YouTubeDownloaderBot).         *)
(*                                                                         *)
(* The bot is a single asyncio event loop.  Handlers and pipeline runs     *)
(* (process_video tasks) interleave only at `await` points; every action   *)
(* below is the code between two suspension points of one coroutine.  A    *)
(* handler is given as a result operator (the new values of the            *)
(* dictionaries it writes and the messages it sends, computed from the     *)
(* current state and the event) and an action that installs the result.    *)
(*                                                                         *)
(* Spec is the program as shipped: the                                     *)
(* module never imports `time` (imports are lines 1-18), so the expression *)
(* time.time() at line 1227 raises NameError in every run and control goes *)
(* to the handler at line 1392.  SpecTimeBound is the same program with    *)
(* the global name `time` bound, so that lines 1228-1390 execute; it is    *)
(* used to examine what that code does.  SpecScheduled is Spec with the    *)
(* event loop's scheduling of ready tasks stated as weak fairness.         *)
(***************************************************************************)
EXTENDS Integers, Sequences, FiniteSets, TLC

\* ------------------------------------------------------------------ bounds
\* Telegram users that send events.
Users == {1, 2}
\* Number of process_video tasks created in one behaviour.
MaxRuns == 2
\* Whole seconds the clocks (loop.time(), time.time(), datetime.now()) advance.
MaxClock == 1

\* ------------------------------------------------------- program constants
\* validate_cookies_file / handle_cookies_upload: minimum size in bytes.
MinCookieSize == 100
\* validate_cookies_file / handle_cookies_upload: 1024 * 1024.
MaxCookieSize == 1048576
\* config['max_file_size'] (default of MAX_FILE_SIZE).
max_file_size == 1500000000
\* config['max_duration'] (default of MAX_DURATION), in seconds.
max_duration == 1800

\* user_state.get("resolution") when the key is missing.
NoResolution == "none"

\* No file at cookies_path.
Absent == [exists |-> FALSE, size |-> 0, yt |-> FALSE, netscape |-> FALSE, lines |-> 0]
\* self.cookies_metadata = {}
NoMetadata == [size |-> 0, format |-> "none"]

\* ----------------------------------------------------------------- helpers
Put(f, k, v) == [x \in DOMAIN f \cup {k} |-> IF x = k THEN v ELSE f[x]]
Del(f, k) == [x \in DOMAIN f \ {k} |-> f[x]]
EmptyMap == [x \in {} |-> 0]

VARIABLES
    allowed_users,        \* config['allowed_users']
    admin_users,          \* config['admin_users']
    max_concurrent,       \* config['max_concurrent']
    time_bound,           \* whether the global name `time` resolves (line 1227)
    task_slots,           \* tasks the users cause to be created in this behaviour
    faults,               \* whether awaited external calls raise in this behaviour
    video,                \* the video behind the URL: duration, sign-in gate
    overlap,              \* whether events are handled while a batch file downloads
    clock,                \* the clocks, in whole seconds
    user_states,          \* self.user_states: user -> Session entry
    cookie_upload_states, \* self.cookie_upload_states (users waiting_for_file)
    active_downloads,     \* self.active_downloads: task_id -> user
    download_states,      \* self.download_states: user -> cancelled flag
    runs,                 \* the process_video tasks, by creation order
    temp_dirs,            \* directories under config['temp_dir']: name -> content
    cookie_file,          \* the file at config['cookies_path']
    backups,              \* files in config['cookies_backup_dir']: name -> content
    cookies_available,    \* self.cookies_available
    cookies_metadata,     \* self.cookies_metadata
    delete_keyboard,      \* users who were sent the delete-confirmation keyboard
    batch_uploads,        \* user -> where that user's handle_batch_upload is suspended
    cookie_downloads,     \* user -> documents that user's handle_cookies_upload is downloading
    batch_dirs            \* owners of the directories made by mkdtemp for batch files

vars == <<allowed_users, admin_users, max_concurrent, time_bound, task_slots, faults, video,
          overlap, clock,
          user_states, cookie_upload_states, active_downloads, download_states,
          runs, temp_dirs, cookie_file, backups, cookies_available,
          cookies_metadata, delete_keyboard, batch_uploads, cookie_downloads,
          batch_dirs>>

config_vars == <<allowed_users, admin_users, max_concurrent, time_bound, task_slots, faults,
                 video, overlap>>
task_vars == <<active_downloads, download_states, runs, temp_dirs>>
cookie_vars == <<cookie_file, backups, cookies_available, cookies_metadata>>

RunIds == 1..MaxRuns

\* A task slot that has not been created yet.  The fields after `errors`
\* are locals and bookkeeping of a run in flight.
NoRun == [user |-> 0, pc |-> "unused", status |-> "none", videos |-> 0,
          documents |-> 0, errors |-> 0,
          task_id |-> <<0, 0>>, dir |-> <<0, 0>>, resolution |-> NoResolution,
          proc |-> "none", file |-> -1, first_send |-> "none",
          video_calls |-> 0, document_calls |-> 0, flood_value |-> 0, slept |-> 0,
          probed |-> FALSE, size_rejected |-> FALSE, retry_failed |-> FALSE,
          stop_requested |-> FALSE, error_msg |-> "none", thumb |-> FALSE]

\* ------------------------------------------------------------ access checks
\* Variant of check_user_access that lets every user through.
check_user_access_open(u) == TRUE

check_user_access(u) ==
    IF allowed_users = {} THEN TRUE ELSE u \in allowed_users

get_admin_ids ==
    IF admin_users # {} THEN admin_users ELSE allowed_users

\* Variant of check_admin_access that lets every user through.
check_admin_access_open(u) == TRUE

check_admin_access(u) ==
    IF get_admin_ids = {} THEN FALSE ELSE u \in get_admin_ids

\* ------------------------------------------------------------ cookie store
\* Cookie file contents: size in bytes, whether a YouTube domain string
\* occurs, whether the first line is the Netscape header, number of lines
\* with at least 7 tab-separated fields.
CookieFile(size, yt, netscape, lines) ==
    [exists |-> TRUE, size |-> size, yt |-> yt, netscape |-> netscape, lines |-> lines]

\* Files an admin may upload.
Candidates ==
    { CookieFile(50, TRUE, TRUE, 1),
      CookieFile(100, TRUE, TRUE, 1),
      CookieFile(500, TRUE, FALSE, 2),
      CookieFile(500, FALSE, TRUE, 1),
      CookieFile(500, TRUE, FALSE, 0),
      CookieFile(500, TRUE, TRUE, 0),
      CookieFile(1048577, TRUE, TRUE, 3) }

\* Files that may be on disk when the bot is constructed.
StartupFiles == { CookieFile(50, TRUE, TRUE, 1), CookieFile(700, TRUE, TRUE, 4) }

\* Variant of validate_cookies_file without the two size checks.
validate_content_only(c) ==
    IF ~c.yt THEN FALSE
    ELSE IF c.lines = 0 /\ ~c.netscape THEN FALSE
    ELSE TRUE

validate_cookies_file(c) ==
    IF c.size < MinCookieSize THEN FALSE
    ELSE IF c.size > MaxCookieSize THEN FALSE
    ELSE IF ~c.yt THEN FALSE
    ELSE IF c.lines = 0 /\ ~c.netscape THEN FALSE
    ELSE TRUE

\* check_cookies_file: the pair <<cookies_available, cookies_metadata>> for
\* the file `f` at cookies_path (read errors are not modelled).
check_cookies_file(f) ==
    IF f.exists
    THEN << f.size > 100,
            [size |-> f.size, format |-> IF f.netscape THEN "Netscape" ELSE "Unknown"] >>
    ELSE << FALSE, NoMetadata >>

\* backup_current_cookies: the backup directory afterwards.  copy_ok is the
\* outcome of shutil.copy2; the backup name carries the second of the clock.
backup_current_cookies(copy_ok) ==
    IF cookie_file.exists
    THEN IF copy_ok THEN Put(backups, clock, cookie_file) ELSE backups
    ELSE backups

\* ------------------------------------------------------------------- texts
\* Text messages (message.text.strip()); "/unknown" is a command no handler
\* is registered for, which reaches handle_text_messages.
Texts == {"720", "999", "best", "BEST", "https://youtu.be/abc123", "hello", "/unknown"}

\* text.startswith('/')
is_command(t) == t = "/unknown"

isdigit(t) == t \in {"720", "999"}
lower(t) == IF t = "BEST" THEN "best" ELSE t
IsSupportedNumber(t) == isdigit(t) /\ t \in {"144", "240", "360", "480", "720", "1080"}
validate_youtube_url(t) == t = "https://youtu.be/abc123"

\* Configurations read by load_config.  User 3 sends no event; it stands for
\* the users of a deployment other than the two that are modelled.
Configs ==
    { [allowed |-> {3}, admins |-> {1}, max |-> 1],
      [allowed |-> {1}, admins |-> {3}, max |-> 1],
      [allowed |-> {1}, admins |-> {3}, max |-> 2],
      [allowed |-> {}, admins |-> {}, max |-> 1] }

\* The video the URL of Texts points to: its duration in seconds and whether
\* YouTube serves it only to a signed-in (age-verified) client.
Video(duration, restricted) == [duration |-> duration, restricted |-> restricted]
ShortVideo == Video(300, FALSE)
LongVideo == Video(4000, FALSE)
RestrictedVideo == Video(300, TRUE)

\* An environment of a behaviour: how many tasks the users cause to be
\* created, whether the awaited external calls of a task (Telegram API calls,
\* subprocess creation, ffmpeg.probe) can raise, the video requested, and
\* whether the download of a batch file (line 1116) lasts long enough for
\* other events to be handled meanwhile.
Env(tasks, fault, vid, slow) ==
    [tasks |-> tasks, faults |-> fault, video |-> vid, overlap |-> slow]

\* No task is created and batch files download slowly.
SlowUploads == Env(0, FALSE, ShortVideo, TRUE)

Environments ==
    { Env(MaxRuns, FALSE, ShortVideo, FALSE),
      Env(1, TRUE, ShortVideo, FALSE),
      Env(1, FALSE, LongVideo, FALSE),
      Env(1, FALSE, RestrictedVideo, FALSE),
      SlowUploads }

InitWith(cfgs, files, bound, envs) ==
    /\ \E cfg \in cfgs :
          /\ allowed_users = cfg.allowed
          /\ admin_users = cfg.admins
          /\ max_concurrent = cfg.max
    /\ \E env \in envs :
          /\ task_slots = env.tasks
          /\ faults = env.faults
          /\ video = env.video
          /\ overlap = env.overlap
    /\ time_bound = bound
    /\ clock = 0
    /\ user_states = EmptyMap
    /\ cookie_upload_states = {}
    /\ active_downloads = EmptyMap
    /\ download_states = EmptyMap
    /\ runs = [r \in RunIds |-> NoRun]
    /\ temp_dirs = EmptyMap
    /\ cookie_file \in files
    /\ backups = EmptyMap
    /\ cookies_available = check_cookies_file(cookie_file)[1]
    /\ cookies_metadata = check_cookies_file(cookie_file)[2]
    /\ delete_keyboard = {}
    /\ batch_uploads = [u \in Users |-> "none"]
    /\ cookie_downloads = [u \in Users |-> {}]
    /\ batch_dirs = {}

\* The state after YouTubeDownloaderBot.__init__.
Init == InitWith(Configs, {Absent} \cup StartupFiles, FALSE,
                 {Env(MaxRuns, TRUE, ShortVideo, FALSE), SlowUploads})

\* The same with the name `time` bound at line 1227.
InitTimeBound == InitWith({c \in Configs : c.allowed # {}}, {Absent}, TRUE, Environments)

\* One second passes.
Tick ==
    /\ clock < MaxClock
    /\ clock' = clock + 1
    /\ UNCHANGED <<config_vars, user_states, cookie_upload_states, task_vars,
                   cookie_vars, delete_keyboard, batch_uploads, cookie_downloads, batch_dirs>>

\* -------------------------------------------------------- session handlers
\* A Session entry of user_states.  `resolution` is NoResolution and `urls`
\* is 0 when the dict has no such key; `temp_dir` tells whether the entry
\* holds the path of a tempfile.mkdtemp() directory.
Session(state, resolution, urls, temp_dir) ==
    [state |-> state, resolution |-> resolution, urls |-> urls, temp_dir |-> temp_dir]

\* sum(1 for uid in self.active_downloads.values() if uid == user_id)
active_count(u) ==
    Cardinality({t \in DOMAIN active_downloads : active_downloads[t] = u})

\* `user_id in self.user_states` as tested by /yt and /batch.
session_busy_never(u) == FALSE
session_busy(u) == u \in DOMAIN user_states

\* The part of /yt and /batch after the access check; `state` is the phase
\* the command would open.
begin_command(u, state) ==
    IF active_count(u) >= max_concurrent
    THEN [user_states |-> user_states, reply |-> <<"too_many_active">>]
    ELSE IF session_busy(u)
    THEN [user_states |-> user_states, reply |-> <<"finish_current">>]
    ELSE [user_states |-> Put(user_states, u, Session(state, NoResolution, 0, FALSE)),
          reply |-> IF state = "waiting_for_url"
                    THEN <<"select_resolution">> ELSE <<"send_batch_file">>]

yt_result(u) ==
    IF ~check_user_access(u)
    THEN [user_states |-> user_states, reply |-> <<"not_authorized">>]
    ELSE begin_command(u, "waiting_for_url")

yt_command(u) ==
    /\ user_states' = yt_result(u).user_states
    /\ UNCHANGED <<config_vars, clock, cookie_upload_states, task_vars, cookie_vars,
                   delete_keyboard, batch_uploads, cookie_downloads, batch_dirs>>

batch_result(u) ==
    IF ~check_user_access(u)
    THEN [user_states |-> user_states, reply |-> <<"not_authorized">>]
    ELSE begin_command(u, "waiting_for_batch")

batch_command(u) ==
    /\ user_states' = batch_result(u).user_states
    /\ UNCHANGED <<config_vars, clock, cookie_upload_states, task_vars, cookie_vars,
                   delete_keyboard, batch_uploads, cookie_downloads, batch_dirs>>

\* A run is in flight from asyncio.create_task until its finally block ends.
InFlight(r) == runs[r].pc \notin {"unused", "done"}

\* A run has started once its first step (lines 1202-1208) has registered it.
Started(r) == runs[r].pc \notin {"unused", "created", "done"}

stop_result(u) ==
    IF u \in DOMAIN download_states
    THEN [download_states |-> [download_states EXCEPT ![u] = TRUE],
          user_states |-> user_states, reply |-> <<"download_stopped">>]
    ELSE IF u \in DOMAIN user_states
    THEN [download_states |-> download_states,
          user_states |-> Del(user_states, u), reply |-> <<"operation_cancelled">>]
    ELSE [download_states |-> download_states,
          user_states |-> user_states, reply |-> <<"no_active_download">>]

\* /stop.  A run of the user that is waiting in the monitoring loop when the
\* command is answered with "Download stopped" is marked stop_requested.
stop_command(u) ==
    /\ download_states' = stop_result(u).download_states
    /\ user_states' = stop_result(u).user_states
    /\ runs' = [r \in RunIds |->
                  IF /\ runs[r].user = u
                     /\ runs[r].pc = "communicate"
                     /\ u \in DOMAIN download_states
                  THEN [runs[r] EXCEPT !.stop_requested = TRUE]
                  ELSE runs[r]]
    /\ UNCHANGED <<config_vars, clock, cookie_upload_states, active_downloads,
                   temp_dirs, cookie_vars, delete_keyboard, batch_uploads, cookie_downloads, batch_dirs>>

cancel_result(u) ==
    [user_states |-> Del(user_states, u),
     cookie_upload_states |-> cookie_upload_states \ {u},
     download_states |-> download_states,
     reply |-> (IF u \in DOMAIN user_states THEN <<"operation_cancelled">> ELSE <<>>)
               \o (IF u \in cookie_upload_states
                   THEN <<"cookies_upload_cancelled">> ELSE <<>>)]

cancel_command(u) ==
    /\ user_states' = cancel_result(u).user_states
    /\ cookie_upload_states' = cancel_result(u).cookie_upload_states
    /\ download_states' = cancel_result(u).download_states
    /\ UNCHANGED <<config_vars, clock, active_downloads, runs, temp_dirs, cookie_vars,
                   delete_keyboard, batch_uploads, cookie_downloads, batch_dirs>>

\* Callback data of the inline buttons.  The resolution keyboards of an
\* earlier /yt or batch upload stay in the chat, so their buttons can be
\* pressed in any state; the delete buttons exist once /cookies_delete has
\* sent them.
CallbackData == {"res_720", "res_best", "res_cancel", "batch_res_720",
                 "delete_cookies_yes", "delete_cookies_no"}

\* data.replace("res_", "") and then .replace("p", "") unless it is "best".
ResolutionOf(data) == IF data = "res_best" THEN "best" ELSE "720"

res_result(u, data) ==
    IF u \notin DOMAIN user_states
    THEN [user_states |-> user_states, reply |-> <<"session_expired">>]
    ELSE IF data = "res_cancel"
    THEN [user_states |-> Del(user_states, u), reply |-> <<"operation_cancelled">>]
    ELSE [user_states |-> [user_states EXCEPT ![u] =
                             Session("waiting_for_url", ResolutionOf(data), 0, FALSE)],
          reply |-> <<"resolution_selected">>]

\* handle_callback_query, branch data.startswith("res_").
res_callback(u, data) ==
    /\ data \in {"res_720", "res_best", "res_cancel"}
    /\ user_states' = res_result(u, data).user_states
    /\ UNCHANGED <<config_vars, clock, cookie_upload_states, task_vars, cookie_vars,
                   delete_keyboard, batch_uploads, cookie_downloads, batch_dirs>>

\* handle_callback_query for data that matches no branch (batch_res_*): only
\* callback_query.answer() runs.
other_callback(u, data) ==
    /\ data = "batch_res_720"
    /\ UNCHANGED vars

delete_yes_result(u, copy_ok) ==
    IF ~check_admin_access(u)
    THEN [cookie_file |-> cookie_file, backups |-> backups,
          cookies_available |-> cookies_available,
          cookies_metadata |-> cookies_metadata, reply |-> <<"admin_required">>]
    ELSE IF cookie_file.exists
    THEN [cookie_file |-> Absent, backups |-> backup_current_cookies(copy_ok),
          cookies_available |-> FALSE, cookies_metadata |-> NoMetadata,
          reply |-> <<"cookies_deleted_backup_created">>]
    ELSE [cookie_file |-> cookie_file, backups |-> backup_current_cookies(copy_ok),
          cookies_available |-> cookies_available,
          cookies_metadata |-> cookies_metadata, reply |-> <<"cookies_not_found">>]

\* handle_callback_query, branch data == "delete_cookies_yes"; copy_ok is
\* the outcome of the backup's shutil.copy2.  Once the keyboard is in a chat
\* every member of the chat can press its buttons.
delete_cookies_yes(u, copy_ok) ==
    /\ delete_keyboard # {}
    /\ cookie_file' = delete_yes_result(u, copy_ok).cookie_file
    /\ backups' = delete_yes_result(u, copy_ok).backups
    /\ cookies_available' = delete_yes_result(u, copy_ok).cookies_available
    /\ cookies_metadata' = delete_yes_result(u, copy_ok).cookies_metadata
    /\ UNCHANGED <<config_vars, clock, user_states, cookie_upload_states, task_vars,
                   delete_keyboard, batch_uploads, cookie_downloads, batch_dirs>>

\* handle_callback_query, branch data == "delete_cookies_no".
delete_cookies_no(u) ==
    /\ delete_keyboard # {}
    /\ UNCHANGED vars

\* The least task slot not yet used.
NewRun == CHOOSE r \in RunIds : runs[r].pc = "unused" /\ \A q \in 1..(r - 1) : runs[q].pc # "unused"

\* Variant of ResolutionOrDefault that ignores the Session's selection.
ResolutionAlwaysDefault(s) == "720"

\* user_state.get("resolution", "720")
ResolutionOrDefault(s) == IF s.resolution = NoResolution THEN "720" ELSE s.resolution

\* asyncio.create_task(self.process_video(message, text, resolution))
create_task(u, resolution) ==
    [runs EXCEPT ![NewRun] = [NoRun EXCEPT !.user = u, !.pc = "created",
                                          !.resolution = resolution]]

\* Variant of text_result without the test of line 986: whatever a user in
\* phase waiting_for_url sends is taken for the URL.
text_result_unvalidated(u, text) ==
    IF u \in DOMAIN user_states /\ user_states[u].state = "waiting_for_url"
    THEN [user_states |-> Del(user_states, u), task |-> TRUE,
          resolution |-> ResolutionOrDefault(user_states[u]), reply |-> <<>>]
    ELSE [user_states |-> user_states, task |-> FALSE, resolution |-> NoResolution,
          reply |-> <<>>]

\* handle_text_messages: the new user_states, whether a task is created (and
\* with which resolution), and the reply.
text_result(u, text) ==
    IF is_command(text)
    THEN [user_states |-> user_states, task |-> FALSE, resolution |-> NoResolution,
          reply |-> <<>>]
    ELSE IF u \in DOMAIN user_states /\ user_states[u].state = "waiting_for_url"
    THEN IF IsSupportedNumber(text)
         THEN [user_states |-> [user_states EXCEPT ![u] =
                                  Session("waiting_for_url", text, 0, FALSE)],
               task |-> FALSE, resolution |-> NoResolution, reply |-> <<"resolution_set">>]
         ELSE IF lower(text) = "best"
         THEN [user_states |-> [user_states EXCEPT ![u] =
                                  Session("waiting_for_url", "best", 0, FALSE)],
               task |-> FALSE, resolution |-> NoResolution, reply |-> <<"resolution_set">>]
         ELSE IF ~validate_youtube_url(text)
         THEN [user_states |-> user_states, task |-> FALSE, resolution |-> NoResolution,
               reply |-> <<"invalid_url">>]
         ELSE [user_states |-> Del(user_states, u), task |-> TRUE,
               resolution |-> ResolutionOrDefault(user_states[u]), reply |-> <<>>]
    ELSE [user_states |-> user_states, task |-> FALSE, resolution |-> NoResolution,
          reply |-> IF validate_youtube_url(text) THEN <<"use_yt_first">> ELSE <<>>]

handle_text_messages(u, text) ==
    /\ text_result(u, text).task =>
           Cardinality({r \in RunIds : runs[r].pc # "unused"}) < task_slots
    /\ user_states' = text_result(u, text).user_states
    /\ runs' = IF text_result(u, text).task
               THEN create_task(u, text_result(u, text).resolution)
               ELSE runs
    /\ UNCHANGED <<config_vars, clock, cookie_upload_states, active_downloads,
                   download_states, temp_dirs, cookie_vars, delete_keyboard, batch_uploads, cookie_downloads, batch_dirs>>

\* -------------------------------------------------------- cookie handlers
cookies_upload_command(u) ==
    /\ cookie_upload_states' = IF check_admin_access(u)
                               THEN cookie_upload_states \cup {u}
                               ELSE cookie_upload_states
    /\ UNCHANGED <<config_vars, clock, user_states, task_vars, cookie_vars, delete_keyboard, batch_uploads, cookie_downloads, batch_dirs>>

backup_result(u, copy_ok) ==
    IF ~check_admin_access(u)
    THEN [backups |-> backups, reply |-> <<"admin_required">>]
    ELSE IF ~cookies_available
    THEN [backups |-> backups, reply |-> <<"no_cookies_to_backup">>]
    ELSE [backups |-> backup_current_cookies(copy_ok),
          reply |-> IF cookie_file.exists /\ copy_ok
                    THEN <<"backup_created">> ELSE <<"backup_failed">>]

cookies_backup_command(u, copy_ok) ==
    /\ backups' = backup_result(u, copy_ok).backups
    /\ UNCHANGED <<config_vars, clock, user_states, cookie_upload_states, task_vars,
                   cookie_file, cookies_available, cookies_metadata, delete_keyboard, batch_uploads, cookie_downloads, batch_dirs>>

cookies_delete_command(u) ==
    /\ delete_keyboard' = IF check_admin_access(u) /\ cookies_available
                          THEN delete_keyboard \cup {u}
                          ELSE delete_keyboard
    /\ UNCHANGED <<config_vars, clock, user_states, cookie_upload_states, task_vars,
                   cookie_vars, batch_uploads, cookie_downloads, batch_dirs>>

cookies_refresh_command(u) ==
    /\ IF ~check_admin_access(u)
       THEN UNCHANGED <<cookies_available, cookies_metadata>>
       ELSE /\ cookies_available' = check_cookies_file(cookie_file)[1]
            /\ cookies_metadata' = check_cookies_file(cookie_file)[2]
    /\ UNCHANGED <<config_vars, clock, user_states, cookie_upload_states, task_vars,
                   cookie_file, backups, delete_keyboard, batch_uploads, cookie_downloads, batch_dirs>>

\* handle_cookies_upload for a document with the given file name class
\* (txt: the lower-cased name ends in .txt) and content; dl_ok and copy_ok
\* are the outcomes of message.download and of the backup's shutil.copy2.
\* Variant of upload_result that installs the candidate whenever it was
\* downloaded, whatever the name, the size and the validation say.
upload_result_unchecked(u, txt, cand, dl_ok, copy_ok) ==
    IF ~dl_ok
    THEN [cookie_file |-> cookie_file, backups |-> backups,
          cookies_available |-> cookies_available,
          cookies_metadata |-> cookies_metadata,
          reply |-> <<"downloading_cookies", "error_uploading">>]
    ELSE [cookie_file |-> cand, backups |-> backup_current_cookies(copy_ok),
          cookies_available |-> check_cookies_file(cand)[1],
          cookies_metadata |-> check_cookies_file(cand)[2],
          reply |-> <<"downloading_cookies", "cookies_updated">>]

upload_result(u, txt, cand, dl_ok, copy_ok) ==
    LET keep(reply) == [cookie_file |-> cookie_file, backups |-> backups,
                        cookies_available |-> cookies_available,
                        cookies_metadata |-> cookies_metadata, reply |-> reply]
    IN IF ~txt THEN keep(<<"must_be_txt">>)
       ELSE IF cand.size > MaxCookieSize THEN keep(<<"file_too_large">>)
       ELSE IF cand.size < MinCookieSize THEN keep(<<"file_too_small">>)
       ELSE IF ~dl_ok THEN keep(<<"downloading_cookies", "error_uploading">>)
       ELSE IF ~validate_cookies_file(cand)
       THEN keep(<<"downloading_cookies", "invalid_cookies_file">>)
       ELSE [cookie_file |-> cand, backups |-> backup_current_cookies(copy_ok),
             cookies_available |-> check_cookies_file(cand)[1],
             cookies_metadata |-> check_cookies_file(cand)[2],
             reply |-> <<"downloading_cookies", "cookies_updated">>]

\* Whether handle_cookies_upload gets as far as message.download (line 1049)
\* for the document: the name and the declared size pass lines 1026-1041.
reaches_download(txt, cand) ==
    txt /\ cand.size <= MaxCookieSize /\ cand.size >= MinCookieSize

\* The documents of one user that can be downloading at the same time.
MaxUploads == 2

\* handle_cookies_upload.  Where no event is handled during the download the
\* handler runs to its end; otherwise it is suspended at message.download
\* (line 1049) with the sender still in cookie_upload_states.
handle_cookies_upload(u, txt, cand, dl_ok, copy_ok) ==
    /\ u \in cookie_upload_states
    /\ IF overlap /\ reaches_download(txt, cand)
       THEN /\ Cardinality(cookie_downloads[u]) < MaxUploads
            /\ cookie_downloads' = [cookie_downloads EXCEPT ![u] = @ \cup {cand}]
            /\ UNCHANGED <<cookie_upload_states, cookie_vars>>
       ELSE /\ cookie_upload_states' = cookie_upload_states \ {u}
            /\ cookie_file' = upload_result(u, txt, cand, dl_ok, copy_ok).cookie_file
            /\ backups' = upload_result(u, txt, cand, dl_ok, copy_ok).backups
            /\ cookies_available' =
                   upload_result(u, txt, cand, dl_ok, copy_ok).cookies_available
            /\ cookies_metadata' =
                   upload_result(u, txt, cand, dl_ok, copy_ok).cookies_metadata
            /\ cookie_downloads' = cookie_downloads
    /\ UNCHANGED <<config_vars, clock, user_states, task_vars, delete_keyboard,
                   batch_uploads, batch_dirs>>

\* Lines 1051-1090 once message.download has returned (dl_ok) or raised for
\* the document cand of user u: the cookie store, whether line 1066 copied
\* the document over the active file, and the status shown last.  The
\* statement `del self.cookie_upload_states[user_id]` (lines 1057, 1073)
\* raises KeyError when the entry is gone; the handler of line 1084 then
\* shows the error status.
download_result(u, cand, dl_ok, copy_ok) ==
    LET keep(reply) == [cookie_file |-> cookie_file, backups |-> backups,
                        cookies_available |-> cookies_available,
                        cookies_metadata |-> cookies_metadata,
                        installed |-> FALSE, reply |-> reply]
    IN IF ~dl_ok THEN keep(<<"error_uploading">>)
       ELSE IF ~validate_cookies_file(cand)
       THEN keep(IF u \in cookie_upload_states
                 THEN <<"invalid_cookies_file">>
                 ELSE <<"invalid_cookies_file", "error_uploading">>)
       ELSE [cookie_file |-> cand, backups |-> backup_current_cookies(copy_ok),
             cookies_available |-> check_cookies_file(cand)[1],
             cookies_metadata |-> check_cookies_file(cand)[2],
             installed |-> TRUE,
             reply |-> IF u \in cookie_upload_states
                       THEN <<"cookies_updated">> ELSE <<"error_uploading">>]

\* message.download of a suspended handle_cookies_upload returns or raises
\* and the handler runs to its end.
cookies_download_returns(u, cand, dl_ok, copy_ok) ==
    /\ u \in DOMAIN cookie_downloads
    /\ cand \in cookie_downloads[u]
    /\ cookie_downloads' = [cookie_downloads EXCEPT ![u] = @ \ {cand}]
    /\ cookie_upload_states' = cookie_upload_states \ {u}
    /\ cookie_file' = download_result(u, cand, dl_ok, copy_ok).cookie_file
    /\ backups' = download_result(u, cand, dl_ok, copy_ok).backups
    /\ cookies_available' = download_result(u, cand, dl_ok, copy_ok).cookies_available
    /\ cookies_metadata' = download_result(u, cand, dl_ok, copy_ok).cookies_metadata
    /\ UNCHANGED <<config_vars, clock, user_states, task_vars, delete_keyboard,
                   batch_uploads, batch_dirs>>

\* handle_batch_upload for a document whose name ends in .txt or not, holding
\* nurls valid YouTube URLs; dl_ok is the outcome of message.download: the
\* entry and the messages when no other handler runs while it is suspended.
batch_upload_result(u, txt, nurls, dl_ok) ==
    IF ~txt
    THEN [user_states |-> Del(user_states, u), reply |-> <<"must_be_txt">>]
    ELSE IF ~dl_ok
    THEN [user_states |-> Del(user_states, u),
          reply |-> <<"downloading_batch", "error_batch">>]
    ELSE IF nurls = 0
    THEN [user_states |-> Del(user_states, u),
          reply |-> <<"downloading_batch", "no_valid_urls">>]
    ELSE [user_states |-> [user_states EXCEPT ![u] =
                             Session("waiting_for_batch_resolution", NoResolution,
                                     nurls, TRUE)],
          reply |-> <<"downloading_batch", "select_batch_resolution">>]

\* The directories made by tempfile.mkdtemp (line 1113) for batch files
\* that can exist at the same time.
MaxBatchDirs == 1

\* Whether the directory made at line 1113 is still there when
\* handle_batch_upload has returned: it is removed where no URL was found
\* (line 1127) and in the except clause (lines 1165-1168), and kept, named
\* in the new Session entry, otherwise.
keeps_temp_dir(txt, nurls, dl_ok) == txt /\ dl_ok /\ nurls > 0

\* handle_batch_upload up to its first suspension: for a name that does not
\* end in .txt the corrective reply is awaited (line 1105) and the entry is
\* deleted afterwards; otherwise the status reply and message.download are
\* awaited (lines 1109-1116).  One handle_batch_upload per user is in flight.
\* Where no event is handled during the download the handler runs to its end.
handle_batch_upload(u, txt, nurls, dl_ok) ==
    /\ u \notin cookie_upload_states
    /\ u \in DOMAIN user_states /\ user_states[u].state = "waiting_for_batch"
    /\ batch_uploads[u] = "none"
    /\ txt => Cardinality(batch_dirs) < MaxBatchDirs
    /\ IF overlap
       THEN /\ batch_uploads' = [batch_uploads EXCEPT ![u] =
                                   IF txt THEN "download" ELSE "delete"]
            /\ batch_dirs' = IF txt THEN batch_dirs \cup {u} ELSE batch_dirs
            /\ user_states' = user_states
       ELSE /\ batch_uploads' = batch_uploads
            /\ batch_dirs' = IF keeps_temp_dir(txt, nurls, dl_ok)
                             THEN batch_dirs \cup {u} ELSE batch_dirs
            /\ user_states' = batch_upload_result(u, txt, nurls, dl_ok).user_states
    /\ UNCHANGED <<config_vars, clock, cookie_upload_states, task_vars,
                   cookie_vars, delete_keyboard, cookie_downloads>>

\* message.download returns or raises (line 1116).  With valid URLs in the
\* file line 1146 stores the new entry; otherwise an edit is awaited (line
\* 1126 or 1164) before the directory is removed and the entry deleted.
batch_download_returns(u, nurls, dl_ok) ==
    /\ batch_uploads[u] = "download"
    /\ IF dl_ok /\ nurls > 0
       THEN /\ user_states' = Put(user_states, u,
                                  Session("waiting_for_batch_resolution", NoResolution,
                                          nurls, TRUE))
            /\ batch_uploads' = [batch_uploads EXCEPT ![u] = "none"]
       ELSE /\ user_states' = user_states
            /\ batch_uploads' = [batch_uploads EXCEPT ![u] = "cleanup"]
    /\ UNCHANGED <<config_vars, clock, cookie_upload_states, task_vars, cookie_vars,
                   delete_keyboard, cookie_downloads, batch_dirs>>

\* After the awaited message: shutil.rmtree(temp_dir) where the directory was
\* made (lines 1127, 1165-1168) and `del self.user_states[user_id]` (lines
\* 1106, 1128, 1169); with no entry left the del raises KeyError and changes
\* nothing.
batch_upload_ends(u) ==
    /\ batch_uploads[u] \in {"delete", "cleanup"}
    /\ user_states' = Del(user_states, u)
    /\ batch_dirs' = IF batch_uploads[u] = "cleanup" THEN batch_dirs \ {u} ELSE batch_dirs
    /\ batch_uploads' = [batch_uploads EXCEPT ![u] = "none"]
    /\ UNCHANGED <<config_vars, clock, cookie_upload_states, task_vars, cookie_vars,
                   delete_keyboard, cookie_downloads>>

\* Numbers of valid URLs in an uploaded batch file.
BatchSizes == {0, 2}

\* handle_document when the sender is in neither upload state: no branch is
\* taken and nothing is sent.
ignored_document(u) ==
    /\ u \notin cookie_upload_states
    /\ ~(u \in DOMAIN user_states /\ user_states[u].state = "waiting_for_batch")
    /\ UNCHANGED vars

\* handle_document (lines 912-925): the messages sent for a document of
\* user u, by the branch that is taken.
document_reply(u, txt, cand, nurls, dl_ok, copy_ok) ==
    IF u \in cookie_upload_states
    THEN upload_result(u, txt, cand, dl_ok, copy_ok).reply
    ELSE IF u \in DOMAIN user_states /\ user_states[u].state = "waiting_for_batch"
    THEN batch_upload_result(u, txt, nurls, dl_ok).reply
    ELSE <<>>

\* handle_document: the three ways a document message is dispatched.
handle_document ==
    \/ \E u \in Users, txt \in BOOLEAN, cand \in Candidates,
          dl_ok \in BOOLEAN, copy_ok \in BOOLEAN :
           handle_cookies_upload(u, txt, cand, dl_ok, copy_ok)
    \/ \E u \in Users, txt \in BOOLEAN, nurls \in BatchSizes, dl_ok \in BOOLEAN :
           handle_batch_upload(u, txt, nurls, dl_ok)
    \/ \E u \in Users : ignored_document(u)

\* ---------------------------------------------------------------- pipeline
\* Content of a run directory: the size in bytes of the file the download
\* left there, or NoFile.
NoFile == -1

\* What the download subprocess can leave in the directory when it exits.
DownloadOutputs == {NoFile, 0, max_file_size, max_file_size + 1}

\* What a terminated download can leave behind.
PartialOutputs == {NoFile, 1000}

\* Outcomes of a call of the outbound sink (app.send_video, send_document,
\* edit_text): success, FloodWait, another RPCError, any other exception.
SinkOutcomes == {"ok", "flood", "rpc", "other"}

\* e.value of a FloodWait, in seconds.
FloodValues == {2}

\* self.download_states.get(user_id, {}).get('cancelled')
cancelled(u) == u \in DOMAIN download_states /\ download_states[u]

\* cleanup_user_files: the directories left under temp_dir.
cleanup_nothing(dirs, u) == dirs
cleanup_user_files(dirs, u) ==
    [d \in {x \in DOMAIN dirs : x[1] # u} |-> dirs[d]]

\* os.makedirs(user_temp_dir, exist_ok=True)
makedirs(dirs, d) == IF d \in DOMAIN dirs THEN dirs ELSE Put(dirs, d, NoFile)

\* What is left of a task once its coroutine has returned: the messages it
\* sent (last status shown, files delivered, error replies). Its locals are gone.
Finished(rec) ==
    [NoRun EXCEPT !.user = rec.user, !.pc = "done", !.status = rec.status,
                  !.videos = rec.videos, !.documents = rec.documents,
                  !.errors = rec.errors, !.error_msg = rec.error_msg]

\* Variant of the finally block without lines 1423-1424: its task id stays
\* in active_downloads.
finally_keeps_task_id(r, rec, dirs) ==
    /\ active_downloads' = active_downloads
    /\ download_states' = Del(download_states, rec.user)
    /\ temp_dirs' = cleanup_user_files(dirs, rec.user)
    /\ runs' = [runs EXCEPT ![r] = Finished(rec)]

\* The finally block of process_video (lines 1421-1427) for run r, whose
\* record is rec; dirs is the temp root before the block.
finally_block(r, rec, dirs) ==
    /\ active_downloads' = Del(active_downloads, rec.task_id)
    /\ download_states' = Del(download_states, rec.user)
    /\ temp_dirs' = cleanup_user_files(dirs, rec.user)
    /\ runs' = [runs EXCEPT ![r] = Finished(rec)]

\* The run goes on to its next suspension point.
goto(r, rec) ==
    /\ runs' = [runs EXCEPT ![r] = rec]
    /\ UNCHANGED <<active_downloads, download_states, temp_dirs>>

pipeline_frame ==
    UNCHANGED <<config_vars, clock, user_states, cookie_upload_states, cookie_vars,
                delete_keyboard, batch_uploads, cookie_downloads, batch_dirs>>

\* file_size > max_size (line 1337)
too_large_never(size) == FALSE
too_large(size) == size > max_file_size

\* Lines 1202-1227: the first step of a task up to the evaluation of
\* time.time(), and from there either the NameError handler's reply (line
\* 1417) or the progress reply (line 1274).
process_video_start(r) ==
    /\ runs[r].pc = "created"
    /\ LET u == runs[r].user
           id == <<u, clock>>
       IN /\ active_downloads' = Put(active_downloads, id, u)
          /\ download_states' = Put(download_states, u, FALSE)
          /\ IF time_bound
             THEN /\ temp_dirs' = makedirs(temp_dirs, id)
                  /\ runs' = [runs EXCEPT ![r] = [@ EXCEPT !.pc = "progress_reply",
                                                       !.task_id = id, !.dir = id]]
             ELSE /\ temp_dirs' = temp_dirs
                  /\ runs' = [runs EXCEPT ![r] = [@ EXCEPT !.pc = "except_reply",
                                                       !.task_id = id]]
    /\ pipeline_frame

\* Lines 1394-1415: the text of the error reply for an exception whose
\* str(e) holds one of the sign-in terms or the word "cookies".
error_msg(sign_in_terms, cookies_term) ==
    IF sign_in_terms THEN "sign_in_required"
    ELSE IF cookies_term THEN "error_with_cookies_hint"
    ELSE "error"

\* Lines 1392-1427: message.reply(error_msg) returns or raises, then finally.
\* The exceptions that reach line 1392 are the NameError of line 1227 and
\* what the Telegram calls and create_subprocess_shell raise; the text of
\* none of them is about the video.
except_reply_returns(r, ok) ==
    /\ runs[r].pc = "except_reply"
    /\ ok \/ faults
    /\ finally_block(r, [runs[r] EXCEPT !.errors = @ + (IF ok THEN 1 ELSE 0),
                                        !.error_msg = IF ok THEN error_msg(FALSE, FALSE)
                                                      ELSE @],
                     temp_dirs)
    /\ pipeline_frame

\* The head of the monitoring loop (lines 1292-1299) for a run whose record
\* is rec: with the flag set the process is terminated and the cancel edit
\* awaited, otherwise process.communicate() is awaited for one second.
\* partial is what a terminated download leaves in the run's directory.
monitor_loop(r, rec, partial) ==
    IF cancelled(rec.user)
    THEN /\ runs' = [runs EXCEPT ![r] = [rec EXCEPT !.pc = "cancel_edit",
                                                    !.proc = "terminated",
                                                    !.stop_requested = FALSE]]
         /\ temp_dirs' = IF rec.dir \in DOMAIN temp_dirs
                         THEN [temp_dirs EXCEPT ![rec.dir] = partial] ELSE temp_dirs
         /\ UNCHANGED <<active_downloads, download_states>>
    ELSE goto(r, [rec EXCEPT !.pc = "communicate"])

\* What ffmpeg leaves at thumbnail_path in generate_thumbnail: whether the
\* probe and the frame extraction ran without raising, and the size of the
\* file at thumbnail_path afterwards (NoFile if there is none).
ThumbOutcomes ==
    { [ran |-> FALSE, size |-> NoFile], [ran |-> TRUE, size |-> NoFile],
      [ran |-> TRUE, size |-> 0], [ran |-> TRUE, size |-> 5000] }

\* Variant of generate_thumbnail that returns the path whatever is on disk.
generate_thumbnail_always(out) == TRUE

\* generate_thumbnail (lines 1441-1466): TRUE when thumbnail_path is
\* returned, FALSE when None is returned.
generate_thumbnail(out) ==
    IF ~out.ran THEN FALSE
    ELSE out.size # NoFile /\ out.size > 0

\* Variant of probe_raises in which ffmpeg.probe accepts every file.
probe_never_raises(size, probe_ok) == FALSE

\* ffmpeg.probe(video_path) and the reading of probe['format']['duration']
\* (lines 1328-1329) raise: always for a zero-length file, which holds no
\* stream, otherwise when the outcome drawn for the probe says so.
probe_raises(size, probe_ok) == size = 0 \/ ~probe_ok

\* Lines 1305-1351, from the check after the loop to the next edit_text that
\* is awaited; dirs is the temp root, probe_ok the outcome of ffmpeg.probe on
\* a non-empty file.
after_loop(r, rec, dirs, probe_ok) ==
    LET size == IF rec.dir \in DOMAIN dirs THEN dirs[rec.dir] ELSE NoFile
        got == [rec EXCEPT !.file = size, !.stop_requested = FALSE]
    IN IF cancelled(rec.user)
       THEN finally_block(r, rec, dirs)
       ELSE /\ temp_dirs' = dirs
            /\ UNCHANGED <<active_downloads, download_states>>
            /\ IF size = NoFile
               THEN runs' = [runs EXCEPT ![r] = [got EXCEPT !.pc = "fail_edit"]]
               ELSE IF probe_raises(size, probe_ok)
               THEN runs' = [runs EXCEPT ![r] = [got EXCEPT !.pc = "upfail_edit"]]
               ELSE \E out \in ThumbOutcomes :
                      /\ generate_thumbnail(out) \/ faults
                      /\ runs' = [runs EXCEPT ![r] =
                           IF too_large(size)
                           THEN [got EXCEPT !.pc = "toolarge_edit", !.probed = TRUE,
                                            !.size_rejected = TRUE,
                                            !.thumb = generate_thumbnail(out)]
                           ELSE [got EXCEPT !.pc = "uploading_edit", !.probed = TRUE,
                                            !.thumb = generate_thumbnail(out)]]

\* Lines 1274-1293: the progress reply and create_subprocess_shell return or
\* raise; on success the loop is entered.
ProgressOutcomes == {"ok", "reply_raises", "spawn_raises"}

progress_reply_returns(r, out, partial) ==
    /\ runs[r].pc = "progress_reply"
    /\ out = "ok" \/ faults
    /\ IF out = "reply_raises"
       THEN goto(r, [runs[r] EXCEPT !.pc = "except_reply"])
       ELSE IF out = "spawn_raises"
       THEN goto(r, [runs[r] EXCEPT !.pc = "except_reply", !.status = "downloading"])
       ELSE monitor_loop(r, [runs[r] EXCEPT !.status = "downloading", !.proc = "running"],
                         partial)
    /\ pipeline_frame

\* asyncio.wait_for(process.communicate(), timeout=1) times out: continue.
communicate_timeout(r, partial) ==
    /\ runs[r].pc = "communicate"
    /\ monitor_loop(r, runs[r], partial)
    /\ pipeline_frame

\* The command line of lines 1250-1270 names the cookie file only when
\* cookies_available is set (lines 1260-1261).
passes_cookies == cookies_available

\* What yt-dlp can leave in the directory: nothing when the video is served
\* to signed-in clients only and no cookie file was passed.
yt_dlp_outputs ==
    IF video.restricted /\ ~passes_cookies THEN {NoFile} ELSE DownloadOutputs

\* process.communicate() returns: the download process has exited and left
\* `output` in the run's directory (nothing if the directory is gone).
process_exits(r, output, probe_ok) ==
    /\ runs[r].pc = "communicate"
    /\ output \in yt_dlp_outputs
    /\ probe_ok \/ faults
    /\ after_loop(r, [runs[r] EXCEPT !.proc = "exited"],
                  IF runs[r].dir \in DOMAIN temp_dirs
                  THEN [temp_dirs EXCEPT ![runs[r].dir] = output] ELSE temp_dirs,
                  probe_ok)
    /\ pipeline_frame

\* Line 1295: the cancel edit returns or raises; then break and line 1305.
cancel_edit_returns(r, ok, probe_ok) ==
    /\ runs[r].pc = "cancel_edit"
    /\ (ok /\ probe_ok) \/ faults
    /\ IF ok
       THEN after_loop(r, [runs[r] EXCEPT !.status = "cancelled"], temp_dirs, probe_ok)
       ELSE goto(r, [runs[r] EXCEPT !.pc = "except_reply"])
    /\ pipeline_frame

\* Variant of fail_edit_returns without the return of line 1322: control
\* goes on to line 1324, where output_files[0] raises.
fail_edit_falls_through(r, ok) ==
    /\ runs[r].pc = "fail_edit"
    /\ ok \/ faults
    /\ goto(r, [runs[r] EXCEPT !.pc = "except_reply",
                               !.status = IF ok THEN "download_failed" ELSE @])
    /\ pipeline_frame

\* Line 1321: the "Download failed" edit returns (then return and finally) or
\* raises (outer handler).
fail_edit_returns(r, ok) ==
    /\ runs[r].pc = "fail_edit"
    /\ ok \/ faults
    /\ IF ok
       THEN finally_block(r, [runs[r] EXCEPT !.status = "download_failed"], temp_dirs)
       ELSE goto(r, [runs[r] EXCEPT !.pc = "except_reply"])
    /\ pipeline_frame

\* Lines 1338-1342: the size-limit edit returns (then return and finally) or
\* raises (handler of line 1388).
toolarge_edit_returns(r, ok) ==
    /\ runs[r].pc = "toolarge_edit"
    /\ ok \/ faults
    /\ IF ok
       THEN finally_block(r, [runs[r] EXCEPT !.status = "too_large"], temp_dirs)
       ELSE goto(r, [runs[r] EXCEPT !.pc = "upfail_edit"])
    /\ pipeline_frame

\* Line 1351: the "Uploading" edit returns (send_video is called) or raises.
uploading_edit_returns(r, ok) ==
    /\ runs[r].pc = "uploading_edit"
    /\ ok \/ faults
    /\ IF ok
       THEN goto(r, [runs[r] EXCEPT !.pc = "send_video", !.status = "uploading",
                                    !.video_calls = @ + 1])
       ELSE goto(r, [runs[r] EXCEPT !.pc = "upfail_edit"])
    /\ pipeline_frame

\* Where an exception raised inside the try of line 1354 goes: except
\* FloodWait (1365), except RPCError (1378, where send_document is called),
\* or the handler of line 1388.
send_handler(rec, out, v) ==
    IF out = "flood" THEN [rec EXCEPT !.pc = "flood_sleep", !.flood_value = v]
    ELSE IF out = "rpc"
    THEN [rec EXCEPT !.pc = "send_document", !.document_calls = @ + 1]
    ELSE [rec EXCEPT !.pc = "upfail_edit"]

\* Lines 1355-1362: the first send_video returns or raises.
send_video_returns(r, out, v) ==
    /\ runs[r].pc = "send_video"
    /\ out = "ok" \/ faults
    /\ LET rec == [runs[r] EXCEPT !.first_send = out]
       IN IF out = "ok"
          THEN goto(r, [rec EXCEPT !.pc = "success_edit", !.videos = @ + 1])
          ELSE goto(r, send_handler(rec, out, v))
    /\ pipeline_frame

\* Line 1363: the success edit after the first send returns or raises.
success_edit_returns(r, out, v) ==
    /\ runs[r].pc = "success_edit"
    /\ out = "ok" \/ faults
    /\ IF out = "ok"
       THEN finally_block(r, [runs[r] EXCEPT !.status = "sent_successfully"], temp_dirs)
       ELSE goto(r, send_handler(runs[r], out, v))
    /\ pipeline_frame

\* asyncio.sleep(e.value + 1) (line 1366)
flood_sleep_short(v) == v
flood_sleep(v) == v + 1

\* Line 1366: the sleep ends and send_video is called again.
flood_sleep_returns(r) ==
    /\ runs[r].pc = "flood_sleep"
    /\ goto(r, [runs[r] EXCEPT !.pc = "retry_video", !.video_calls = @ + 1,
                               !.slept = flood_sleep(runs[r].flood_value)])
    /\ pipeline_frame

\* Lines 1368-1375: the retried send_video returns or raises (an exception
\* raised in an except clause is not caught by its sibling clauses).
retry_video_returns(r, ok) ==
    /\ runs[r].pc = "retry_video"
    /\ ok \/ faults
    /\ IF ok
       THEN goto(r, [runs[r] EXCEPT !.pc = "retry_success_edit", !.videos = @ + 1])
       ELSE goto(r, [runs[r] EXCEPT !.pc = "upfail_edit", !.retry_failed = TRUE])
    /\ pipeline_frame

\* Line 1376: the success edit after the retry returns or raises.
retry_success_edit_returns(r, ok) ==
    /\ runs[r].pc = "retry_success_edit"
    /\ ok \/ faults
    /\ IF ok
       THEN finally_block(r, [runs[r] EXCEPT !.status = "sent_successfully"], temp_dirs)
       ELSE goto(r, [runs[r] EXCEPT !.pc = "upfail_edit"])
    /\ pipeline_frame

\* Lines 1380-1386: where the run goes when send_document returns (ok) or
\* raises.
document_result_again(rec, ok) ==
    IF ok THEN [rec EXCEPT !.pc = "document_edit", !.documents = @ + 1]
    ELSE [rec EXCEPT !.pc = "send_document", !.document_calls = @ + 1]
document_result(rec, ok) ==
    IF ok THEN [rec EXCEPT !.pc = "document_edit", !.documents = @ + 1]
    ELSE [rec EXCEPT !.pc = "upfail_edit"]

\* Lines 1380-1385: send_document returns or raises.
send_document_returns(r, ok) ==
    /\ runs[r].pc = "send_document"
    /\ ok \/ faults
    /\ goto(r, document_result(runs[r], ok))
    /\ pipeline_frame

\* Line 1386: the "sent as document" edit returns or raises.
document_edit_returns(r, ok) ==
    /\ runs[r].pc = "document_edit"
    /\ ok \/ faults
    /\ IF ok
       THEN finally_block(r, [runs[r] EXCEPT !.status = "sent_as_document"], temp_dirs)
       ELSE goto(r, [runs[r] EXCEPT !.pc = "upfail_edit"])
    /\ pipeline_frame

\* Lines 1388-1390: the "Upload failed" edit returns (then finally) or raises
\* (outer handler of line 1392).
upfail_edit_returns(r, ok) ==
    /\ runs[r].pc = "upfail_edit"
    /\ ok \/ faults
    /\ IF ok
       THEN finally_block(r, [runs[r] EXCEPT !.status = "upload_failed"], temp_dirs)
       ELSE goto(r, [runs[r] EXCEPT !.pc = "except_reply"])
    /\ pipeline_frame

\* ------------------------------------------------------------------- specs
Handlers ==
    \/ \E u \in Users : yt_command(u)
    \/ \E u \in Users : batch_command(u)
    \/ \E u \in Users : stop_command(u)
    \/ \E u \in Users : cancel_command(u)
    \/ \E u \in Users, data \in CallbackData : res_callback(u, data)
    \/ \E u \in Users, data \in CallbackData : other_callback(u, data)
    \/ \E u \in Users, copy_ok \in BOOLEAN : delete_cookies_yes(u, copy_ok)
    \/ \E u \in Users : delete_cookies_no(u)
    \/ \E u \in Users, text \in Texts : handle_text_messages(u, text)
    \/ handle_document
    \/ \E u \in Users : cookies_upload_command(u)
    \/ \E u \in Users, copy_ok \in BOOLEAN : cookies_backup_command(u, copy_ok)
    \/ \E u \in Users : cookies_delete_command(u)
    \/ \E u \in Users : cookies_refresh_command(u)
    \/ \E u \in Users, nurls \in BatchSizes, dl_ok \in BOOLEAN :
           batch_download_returns(u, nurls, dl_ok)
    \/ \E u \in Users : batch_upload_ends(u)
    \/ \E u \in Users, cand \in Candidates, dl_ok \in BOOLEAN, copy_ok \in BOOLEAN :
           cookies_download_returns(u, cand, dl_ok, copy_ok)

Next ==
    \/ Handlers
    \/ Tick
    \/ \E r \in RunIds : process_video_start(r)
    \/ \E r \in RunIds, ok \in BOOLEAN : except_reply_returns(r, ok)

Spec == Init /\ [][Next]_vars

\* The steps of a task in the program as shipped.
TaskStep(r) ==
    \/ process_video_start(r)
    \/ \E ok \in BOOLEAN : except_reply_returns(r, ok)

\* The program as shipped with no cookie file at startup and an environment
\* in which no awaited external call raises.
InitNoFaults ==
    InitWith(Configs, {Absent}, FALSE,
             {Env(MaxRuns, FALSE, ShortVideo, FALSE), SlowUploads})

\* The event loop runs every task that is ready: a created task gets its
\* first step, and an awaited reply returns.
SpecScheduled ==
    InitNoFaults /\ [][Next]_vars /\ \A r \in RunIds : WF_vars(TaskStep(r))

\* The steps of process_video behind line 1227.
Pipeline ==
    \/ \E r \in RunIds, out \in ProgressOutcomes, partial \in PartialOutputs :
           progress_reply_returns(r, out, partial)
    \/ \E r \in RunIds, partial \in PartialOutputs : communicate_timeout(r, partial)
    \/ \E r \in RunIds, output \in DownloadOutputs, probe_ok \in BOOLEAN :
           process_exits(r, output, probe_ok)
    \/ \E r \in RunIds, ok \in BOOLEAN, probe_ok \in BOOLEAN :
           cancel_edit_returns(r, ok, probe_ok)
    \/ \E r \in RunIds, ok \in BOOLEAN : fail_edit_returns(r, ok)
    \/ \E r \in RunIds, ok \in BOOLEAN : toolarge_edit_returns(r, ok)
    \/ \E r \in RunIds, ok \in BOOLEAN : uploading_edit_returns(r, ok)
    \/ \E r \in RunIds, out \in SinkOutcomes, v \in FloodValues :
           send_video_returns(r, out, v)
    \/ \E r \in RunIds, out \in SinkOutcomes, v \in FloodValues :
           success_edit_returns(r, out, v)
    \/ \E r \in RunIds : flood_sleep_returns(r)
    \/ \E r \in RunIds, ok \in BOOLEAN : retry_video_returns(r, ok)
    \/ \E r \in RunIds, ok \in BOOLEAN : retry_success_edit_returns(r, ok)
    \/ \E r \in RunIds, ok \in BOOLEAN : send_document_returns(r, ok)
    \/ \E r \in RunIds, ok \in BOOLEAN : document_edit_returns(r, ok)
    \/ \E r \in RunIds, ok \in BOOLEAN : upfail_edit_returns(r, ok)

NextTimeBound == Next \/ Pipeline

SpecTimeBound == InitTimeBound /\ [][NextTimeBound]_vars

\* ------------------------------------------------------------------ claims
\* Replies by which /yt and /batch refuse to open a Session.
Rejections == { <<"not_authorized">>, <<"too_many_active">>, <<"finish_current">> }

\* C1: while user_states holds an entry for a user, /yt and /batch from that
\* user are answered with a rejection and leave user_states as it is (phase,
\* resolution and queued URLs of the entry included), and a step of either
\* command creates no task and registers no download.
C1_BusySessionRejected ==
    /\ [](\A u \in Users :
            u \in DOMAIN user_states =>
                /\ yt_result(u).user_states = user_states
                /\ batch_result(u).user_states = user_states
                /\ yt_result(u).reply \in Rejections
                /\ batch_result(u).reply \in Rejections)
    /\ [][\A u \in Users :
            (u \in DOMAIN user_states /\ (yt_command(u) \/ batch_command(u)))
                => UNCHANGED <<user_states, runs, active_downloads>>]_vars

\* A user who has chosen 720p is told to finish the current download when
\* sending /yt again.
C1_Witness ==
    \E u \in Users :
        /\ u \in DOMAIN user_states
        /\ user_states[u].resolution = "720"
        /\ yt_result(u).reply = <<"finish_current">>
        /\ batch_result(u).reply = <<"finish_current">>

\* C2: in every reachable state, for every user, the number of that user's
\* process_video tasks that have started and not yet ended is at most
\* max_concurrent.
C2_StartedRunsWithinLimit ==
    \A u \in Users :
        Cardinality({r \in RunIds : runs[r].user = u /\ Started(r)}) <= max_concurrent

C10_BackupBeforeReplaceOrDelete ==
    [][(cookie_file.exists /\ cookie_file' # cookie_file)
          => \E b \in DOMAIN backups' : backups'[b] = cookie_file]_vars

\* ---------------------------------------------------------------- C11
\* Every file validate_cookies_file may be given: sizes on both sides of the
\* two limits, with every combination of the content checks.
CookieSizes == {0, 50, 99, 100, 101, 500, 1048576, 1048577, 2000000}

AnyCookieFile ==
    { CookieFile(s, yt, ns, n) :
        s \in CookieSizes, yt \in BOOLEAN, ns \in BOOLEAN, n \in 0..2 }

\* C11: validate_cookies_file returns False for every candidate file smaller
\* than 100 bytes and for every candidate larger than 1048576 bytes, whatever
\* the content of the file is; a file an upload installed therefore has a
\* size within the two limits.
C11_SizeLimitsRejected ==
    /\ \A c \in AnyCookieFile \cup Candidates :
         (c.size < 100 \/ c.size > 1048576) => ~validate_cookies_file(c)
    /\ \A u \in Users, c \in Candidates :
         upload_result(u, TRUE, c, TRUE, TRUE).reply
             = <<"downloading_cookies", "cookies_updated">>
           => c.size >= 100 /\ c.size <= 1048576

\* An admin is asked for a file while there are candidates whose content
\* passes every content check and whose size alone makes them rejected, next
\* to a candidate of the same content at the lower limit that is accepted.
C11_Witness ==
    /\ \E u \in cookie_upload_states : check_admin_access(u)
    /\ \E c \in AnyCookieFile :
         c.size < 100 /\ validate_content_only(c) /\ ~validate_cookies_file(c)
    /\ \E c \in AnyCookieFile :
         c.size > 1048576 /\ validate_content_only(c) /\ ~validate_cookies_file(c)
    /\ \E c \in AnyCookieFile : c.size = 100 /\ validate_cookies_file(c)

\* ---------------------------------------------------------------- C12
\* The candidate is one the upload handler rejects: its name does not end in
\* .txt, its declared size is outside the limits or validation fails.
RejectedCandidate(txt, cand) ==
    \/ ~txt
    \/ cand.size < 100
    \/ cand.size > 1048576
    \/ ~validate_cookies_file(cand)

\* C12: an upload of a rejected cookie candidate leaves the active cookie
\* file, cookies_available, cookies_metadata and the backup files as they
\* were, whether or not the download and a backup copy would have succeeded;
\* a step that ends a pending upload and changes any of the four has
\* installed a file that passes every check.
C12_RejectedUploadChangesNothing ==
    /\ [](\A u \in Users, txt \in BOOLEAN, cand \in Candidates,
             dl_ok \in BOOLEAN, copy_ok \in BOOLEAN :
            RejectedCandidate(txt, cand) =>
                LET res == upload_result(u, txt, cand, dl_ok, copy_ok)
                IN /\ res.cookie_file = cookie_file
                   /\ res.backups = backups
                   /\ res.cookies_available = cookies_available
                   /\ res.cookies_metadata = cookies_metadata
                   /\ res.reply[Len(res.reply)] \in
                        {"must_be_txt", "file_too_large", "file_too_small",
                         "error_uploading", "invalid_cookies_file"})
    /\ [][(cookie_upload_states' # cookie_upload_states
             /\ cookie_vars' # cookie_vars)
            => ~RejectedCandidate(TRUE, cookie_file')]_vars

\* An admin who was asked for a file sends a candidate that fails validation
\* while a usable cookie file is installed that differs from the candidate
\* and a backup of an earlier file exists.
C12_Witness ==
    \E u \in cookie_upload_states, cand \in Candidates :
        /\ check_admin_access(u)
        /\ cookie_file.exists /\ cookies_available
        /\ backups # EmptyMap
        /\ cand # cookie_file
        /\ cand.size >= 100 /\ cand.size <= 1048576
        /\ upload_result(u, TRUE, cand, TRUE, TRUE).reply
             = <<"downloading_cookies", "invalid_cookies_file">>

NotAllowed == IF allowed_users = {} THEN {} ELSE Users \ allowed_users

\* C14 as stated: when the allow-list is not empty, no step changes what the
\* bot holds for a user who is not on it (the user's Session, cancellation flag,
\* registered downloads, pending cookie upload), such a user never has a
\* Session or a download task, and the cookie file changes only in a step of
\* a user who is on the list.
C14_NotAllowedNoEffects ==
    /\ [](\A u \in NotAllowed :
            /\ u \notin DOMAIN user_states
            /\ u \notin DOMAIN download_states
            /\ u \notin cookie_upload_states
            /\ \A r \in RunIds : runs[r].user # u
            /\ \A t \in DOMAIN active_downloads : active_downloads[t] # u)
    /\ [][cookie_file' # cookie_file
            => \E u \in Users \ NotAllowed, copy_ok \in BOOLEAN :
                  \/ \E txt \in BOOLEAN, cand \in Candidates, dl_ok \in BOOLEAN :
                        handle_cookies_upload(u, txt, cand, dl_ok, copy_ok)
                  \/ \E cand \in Candidates, dl_ok \in BOOLEAN :
                        cookies_download_returns(u, cand, dl_ok, copy_ok)
                  \/ delete_cookies_yes(u, copy_ok)]_vars

\* C14: when the allow-list is not empty, a user who is not on it never has
\* a Session, a cancellation flag, a pipeline run or a registered download;
\* a user who is on neither the allow-list nor the admin list never has a
\* pending cookie upload either, and the cookie file changes only in a step
\* of a user on the admin list.
C14_UnauthorizedNoEffects ==
    /\ [](\A u \in NotAllowed :
            /\ u \notin DOMAIN user_states
            /\ u \notin DOMAIN download_states
            /\ \A r \in RunIds : runs[r].user # u
            /\ \A t \in DOMAIN active_downloads : active_downloads[t] # u
            /\ u \notin get_admin_ids => u \notin cookie_upload_states)
    /\ [][cookie_file' # cookie_file
            => \E u \in get_admin_ids, copy_ok \in BOOLEAN :
                  \/ \E txt \in BOOLEAN, cand \in Candidates, dl_ok \in BOOLEAN :
                        handle_cookies_upload(u, txt, cand, dl_ok, copy_ok)
                  \/ \E cand \in Candidates, dl_ok \in BOOLEAN :
                        cookies_download_returns(u, cand, dl_ok, copy_ok)
                  \/ delete_cookies_yes(u, copy_ok)]_vars

\* An admin who is not on the allow-list is refused by /yt and has a cookie
\* upload pending, next to a user on neither list whom /yt, /batch and
\* /cookies_backup refuse.
C14_Witness ==
    /\ \E a \in NotAllowed :
         /\ check_admin_access(a)
         /\ a \in cookie_upload_states
         /\ yt_result(a).reply = <<"not_authorized">>
    /\ \E u \in NotAllowed :
         /\ ~check_admin_access(u)
         /\ yt_result(u).reply = <<"not_authorized">>
         /\ batch_result(u).reply = <<"not_authorized">>
         /\ backup_result(u, TRUE).reply = <<"admin_required">>

\* ---------------------------------------------------------------- C15
\* C15: for a video longer than max_duration no run starts the download
\* subprocess, and a run that has ended shows a status stating the duration
\* limit.
C15_DurationLimitEnforced ==
    \A r \in RunIds :
        (runs[r].user # 0 /\ video.duration > max_duration) =>
            /\ runs[r].proc = "none"
            /\ runs[r].pc = "done" => runs[r].status = "duration_limit"

\* ---------------------------------------------------------------- C16
\* C16: with no cookie file, a video that is not sign-in gated and within
\* the limits, and no external call failing, every run created for a
\* submitted URL eventually has delivered the file with send_video and has
\* ended with the status "sent successfully".
C16_ValidRunSentSuccessfully ==
    \A r \in RunIds :
        (runs[r].pc = "created")
            ~> (runs[r].pc = "done" /\ runs[r].status = "sent_successfully"
                  /\ runs[r].videos = 1)

\* ---------------------------------------------------------------- C17
\* Messages of process_video that tell the user that cookies are needed.
CookieMessages == {error_msg(TRUE, FALSE), error_msg(FALSE, TRUE)}

\* Last status of a run that the user stopped: the cancel edit, or the
\* progress text when the process exited just after /stop.
StoppedStatus == {"cancelled", "downloading"}

\* C17: a run for a sign-in gated video that ends while no usable cookie
\* file is installed, other than by the user's /stop, has delivered nothing
\* and has told the user that authentication cookies are needed.
C17_RestrictedFailureNamesCookies ==
    \A r \in RunIds :
        (video.restricted /\ ~cookies_available
           /\ runs[r].pc = "done" /\ runs[r].status \notin StoppedStatus) =>
            /\ runs[r].videos = 0 /\ runs[r].documents = 0
            /\ runs[r].error_msg \in CookieMessages

\* ---------------------------------------------------------------- C18
\* The text a Session in phase `state` is waiting for: a resolution or a URL
\* while waiting_for_url, no text in the other phases.
ExpectedText(state, text) ==
    /\ state = "waiting_for_url"
    /\ IsSupportedNumber(text) \/ lower(text) = "best" \/ validate_youtube_url(text)

\* The phase in which a document is the expected input.
ExpectsDocument(state) == state = "waiting_for_batch"

\* C18: whatever the phase of a user's Session, a text message that is not
\* the input the phase waits for is answered with a reply, and so is a
\* document sent in a phase that waits for none (by a user with no cookie
\* upload pending).
C18_UnexpectedInputAnswered ==
    \A u \in DOMAIN user_states :
        /\ \A text \in Texts :
             ~ExpectedText(user_states[u].state, text)
                 => text_result(u, text).reply # <<>>
        /\ (~ExpectsDocument(user_states[u].state) /\ u \notin cookie_upload_states)
             => \A txt \in BOOLEAN, cand \in Candidates, nurls \in BatchSizes,
                   dl_ok \in BOOLEAN, copy_ok \in BOOLEAN :
                    document_reply(u, txt, cand, nurls, dl_ok, copy_ok) # <<>>

\* ---------------------------------------------------------------- C19
\* C19: a step in which a user who had no Session gets one is a step of that
\* user's /yt or /batch command, whatever other handlers of the user are
\* suspended at the time.
C19_SessionOnlyByCommand ==
    [][\A u \in Users :
          (u \notin DOMAIN user_states /\ u \in DOMAIN user_states')
              => (yt_command(u) \/ batch_command(u))]_vars

\* ---------------------------------------------------------------- C20
\* C20: the entries of active_downloads and the runs that have started and
\* not yet ended correspond one to one: every such run has its entry, no two
\* of them share one, and every entry belongs to such a run.
C20_OneEntryPerRunInFlight ==
    /\ \A r \in RunIds :
         Started(r) => /\ runs[r].task_id \in DOMAIN active_downloads
                       /\ active_downloads[runs[r].task_id] = runs[r].user
    /\ \A r1, r2 \in RunIds :
         (Started(r1) /\ Started(r2) /\ r1 # r2) => runs[r1].task_id # runs[r2].task_id
    /\ \A t \in DOMAIN active_downloads :
         \E r \in RunIds : Started(r) /\ runs[r].task_id = t

\* ---------------------------------------------------------------- C21
\* The file holds at least one cookie entry of the content provider: a
\* YouTube domain occurs in it and it has at least one cookie line.
HasProviderEntry(f) == f.yt /\ f.lines > 0

\* C21: whenever cookies_available is set, the file at cookies_path exists,
\* is larger than 100 bytes and holds at least one entry of a YouTube domain.
C21_AvailableCookiesUsable ==
    cookies_available =>
        /\ cookie_file.exists
        /\ cookie_file.size > 100
        /\ HasProviderEntry(cookie_file)

SuccessStatus == {"sent_successfully", "sent_as_document"}

DigitChars == <<"0", "1", "2", "3", "4", "5", "6", "7", "8", "9">>
RECURSIVE str(_)
str(n) == IF n < 10 THEN <<DigitChars[n + 1]>>
          ELSE str(n \div 10) \o <<DigitChars[(n % 10) + 1]>>

\* item.startswith(prefix)
startswith(item, prefix) ==
    /\ Len(item) >= Len(prefix)
    /\ SubSeq(item, 1, Len(prefix)) = prefix

\* Line 1203: task_id = f"{user_id}_{int(loop.time())}"
task_id_name(u, t) == str(u) \o <<"_">> \o str(t)

\* Line 1227: the directory name f"user_{user_id}_{int(time.time())}"
user_dir_name(u, t) == <<"user_">> \o str(u) \o <<"_">> \o str(t)

\* Variant of the prefix of line 1476 without the closing underscore.
user_dir_prefix_bare(u) == <<"user_">> \o str(u)

\* Line 1476: the prefix f"user_{user_id}_" cleanup_user_files matches.
user_dir_prefix(u) == <<"user_">> \o str(u) \o <<"_">>

\* User ids and clock readings whose decimal forms are prefixes of each other.
NamedUsers == {1, 2, 12, 21, 121}
NamedTimes == {0, 1, 2, 12, 21}

\* The names the code derives from a user id belong to that user only:
\* cleanup_user_files(u) matches exactly the directories made for u, and the
\* task ids of distinct users differ.
NamesArePerUser ==
    \A u \in NamedUsers, v \in NamedUsers, t \in NamedTimes :
        /\ startswith(user_dir_name(v, t), user_dir_prefix(u)) <=> (u = v)
        /\ \A s \in NamedTimes :
               task_id_name(u, t) = task_id_name(v, s) => u = v

\* What the program holds for user u: the Session entry, the cancellation
\* flag, the active task entries and the temp directories.
OwnState(u) ==
    << {user_states[x] : x \in DOMAIN user_states \cap {u}},
       {download_states[x] : x \in DOMAIN download_states \cap {u}},
       {t \in DOMAIN active_downloads : active_downloads[t] = u},
       {<<d, temp_dirs[d]>> : d \in {x \in DOMAIN temp_dirs : x[1] = u}} >>

\* A handler step for an update sent by user u that touches Sessions or tasks.
HandlerOf(u) ==
    \/ yt_command(u)
    \/ batch_command(u)
    \/ stop_command(u)
    \/ cancel_command(u)
    \/ \E data \in CallbackData : res_callback(u, data)
    \/ \E text \in Texts : handle_text_messages(u, text)
    \/ \E txt \in BOOLEAN, nurls \in BatchSizes, dl_ok \in BOOLEAN :
           handle_batch_upload(u, txt, nurls, dl_ok)
    \/ \E nurls \in BatchSizes, dl_ok \in BOOLEAN : batch_download_returns(u, nurls, dl_ok)
    \/ batch_upload_ends(u)

\* The step is performed for user u: a handler of an update from u, or a step
\* of a pipeline run of u.
ActedFor(u) ==
    \/ \E r \in RunIds : runs[r].user = u /\ runs'[r] # runs[r]
    \/ HandlerOf(u)

\* C24: every handler step and every pipeline step performed for user A
\* leaves user B's Session, cancellation state, active task entries and temp
\* directories unchanged, for all distinct users A and B; the directory and
\* task names by which the code finds them are per user.
C24_UsersAreIndependent ==
    /\ []NamesArePerUser
    /\ [][\A A \in Users, B \in Users :
              (A # B /\ OwnState(B)' # OwnState(B)) => ~ActedFor(A)]_vars

\* A run of user 1 has gone through its finally block while user 2 holds a
\* Session, a cancellation flag and an active task entry.
C24_Witness ==
    /\ \E r \in RunIds : runs[r].user = 1 /\ runs[r].pc = "done"
    /\ 2 \in DOMAIN user_states
    /\ 2 \in DOMAIN download_states
    /\ \E t \in DOMAIN active_downloads : active_downloads[t] = 2

\* ---------------------------------------------------------------- claim C25
\* The calls that report a terminal failure: the edits of lines 1321, 1338
\* and 1390 and the reply of line 1417.
FailurePcs == {"fail_edit", "toolarge_edit", "upfail_edit", "except_reply"}

\* The last status shown by a failure edit Telegram accepted.
FailureStatus == {"download_failed", "too_large", "upload_failed"}

\* The failure messages the user was shown for the run with record rec.
FailureMessages(rec) == rec.errors + (IF rec.status \in FailureStatus THEN 1 ELSE 0)

\* The step ends run r in a terminal failure.
EndsInFailure(r) == runs[r].pc \in FailurePcs /\ runs'[r].pc = "done"

max_retries == 3

\* The download processes the run with record rec has started: line 1284 is
\* the only place that starts one and no loop encloses it.
download_attempts(rec) == IF rec.proc = "none" THEN 0 ELSE 1

Tiers == {"144", "240", "360", "480", "720", "1080", "best"}
TierHeight ==
    [t \in Tiers \ {"best"} |->
        CASE t = "144" -> 144 [] t = "240" -> 240 [] t = "360" -> 360
          [] t = "480" -> 480 [] t = "720" -> 720 [] t = "1080" -> 1080]

\* One alternative of a yt-dlp format selector: the streams it asks for, the
\* height cap (0: none), whether a format of unknown height passes (`<=?`),
\* and whether the container is restricted ([ext=mp4], [ext=m4a]).
Alternative(streams, cap, unknown_height, ext) ==
    [streams |-> streams, cap |-> cap, unknown_height |-> unknown_height, ext |-> ext]

\* Lines 1231-1235: ytf, as its two alternatives around the "/".
ytf(resolution) ==
    IF resolution = "best"
    THEN [primary |-> Alternative("video+audio", 0, TRUE, FALSE),
          fallback |-> Alternative("single", 0, TRUE, FALSE)]
    ELSE [primary |-> Alternative("video+audio", TierHeight[resolution], FALSE, TRUE),
          fallback |-> Alternative("single", TierHeight[resolution], TRUE, FALSE)]

\* Variant of selector_of_attempt that lowers the cap after the first attempt.
selector_tightening(resolution, k) == IF k = 0 THEN ytf(resolution) ELSE ytf("144")

\* The selector in force at attempt k of the download: the -f argument of
\* the one command line (lines 1255, 1271), which yt-dlp keeps for each retry.
selector_of_attempt(resolution, k) == ytf(resolution)

\* The formats a site can offer: a height (0: unknown) and whether the
\* container is mp4/m4a.
Formats == [height : {0, 144, 720, 1080, 2160}, mp4 : BOOLEAN]

accepts(alt, f) ==
    /\ alt.ext => f.mp4
    /\ IF f.height = 0 THEN alt.unknown_height
       ELSE alt.cap = 0 \/ f.height <= alt.cap

\* Alternative b is not stricter than a: it asks for the same streams and
\* accepts every format a accepts.
not_stricter(b, a) ==
    /\ b.streams = a.streams
    /\ \A f \in Formats : accepts(a, f) => accepts(b, f)

WaitingForUrl(u) == u \in DOMAIN user_states /\ user_states[u].state = "waiting_for_url"

\* The runs created by the step.
CreatedRuns == {r \in RunIds : runs[r].pc = "unused" /\ runs'[r].pc = "created"}

\* C28: when a valid URL is submitted by a user whose Session is in phase
\* waiting_for_url, the Session entry is removed and exactly one pipeline run
\* is started in the same step, with the resolution most recently selected in
\* that Session (by button or by text), or 720 if none was selected.  State
\* part: what the handlers compute in every state (a selection overwrites the
\* Session's resolution, a valid URL removes the entry and asks for a task).
\* Action part: a step that creates a run creates one, for a user whose
\* entry it removes, with that entry's resolution or 720.
C28_ValidUrlStartsOneRun ==
    /\ [](\A u \in Users :
            WaitingForUrl(u) =>
                /\ \A text \in {t \in Texts : validate_youtube_url(t)} :
                       /\ text_result(u, text).task
                       /\ text_result(u, text).user_states = Del(user_states, u)
                       /\ text_result(u, text).resolution =
                              (IF user_states[u].resolution = NoResolution
                               THEN "720" ELSE user_states[u].resolution)
                /\ text_result(u, "720").user_states[u].resolution = "720"
                /\ text_result(u, "BEST").user_states[u].resolution = "best"
                /\ res_result(u, "res_best").user_states[u].resolution = "best"
                /\ res_result(u, "res_720").user_states[u].resolution = "720")
    /\ [][CreatedRuns # {} =>
              \E r \in RunIds :
                  LET u == runs'[r].user
                  IN /\ CreatedRuns = {r}
                     /\ WaitingForUrl(u)
                     /\ u \notin DOMAIN user_states'
                     /\ runs'[r].resolution =
                            (IF user_states[u].resolution = NoResolution
                             THEN "720" ELSE user_states[u].resolution)]_vars

\* A run was created with the resolution "best" its user had selected, one
\* with the default, and neither user holds a Session any more.
C28_Witness ==
    /\ \E r \in RunIds : runs[r].pc = "created" /\ runs[r].resolution = "best"
                         /\ runs[r].user \notin DOMAIN user_states
    /\ \E r \in RunIds : runs[r].pc = "created" /\ runs[r].resolution = "720"
                         /\ runs[r].user \notin DOMAIN user_states

\* ---------------------------------------------------------------- claim C29
\* Texts that are no command, no supported resolution and no valid URL.
InvalidUrlTexts ==
    {t \in Texts : /\ ~is_command(t)
                   /\ ~IsSupportedNumber(t)
                   /\ lower(t) # "best"
                   /\ ~validate_youtube_url(t)}

startswith_res(data) == data \in {"res_720", "res_best", "res_cancel"}

\* user_states after handle_callback_query(u, data): only the res_ branch
\* writes it; the delete_cookies branches and unmatched data leave it alone.
callback_user_states(u, data) ==
    IF startswith_res(data) THEN res_result(u, data).user_states ELSE user_states

\* User u holds a Session in phase waiting_for_batch_resolution in `states`.
AwaitsBatchResolution(states, u) ==
    u \in DOMAIN states /\ states[u].state = "waiting_for_batch_resolution"

\* C30: after a batch file with at least one valid URL has been accepted
\* (phase waiting_for_batch_resolution), a resolution choice by button or by
\* text starts pipeline runs for the queued URLs, and the Session does not
\* stay in waiting_for_batch_resolution once a resolution has been chosen.
C30_BatchResolutionStartsRuns ==
    \A u \in Users :
        AwaitsBatchResolution(user_states, u) =>
            /\ ~AwaitsBatchResolution(callback_user_states(u, "batch_res_720"), u)
            /\ \A text \in {"720", "best"} :
                   /\ ~AwaitsBatchResolution(text_result(u, text).user_states, u)
                   /\ text_result(u, text).task

\* ---------------------------------------------------------------- claim C31
\* Where a run whose cancellation was requested may go from the monitoring
\* loop: on waiting, to the cancel edit, or to its end.
CancelledLoopExits == {"communicate", "cancel_edit", "done"}

C32_ResolutionButtonKeepsPhase ==
    \A u \in Users, data \in {d \in CallbackData : startswith_res(d)} :
        LET after == callback_user_states(u, data)
        IN IF u \notin DOMAIN user_states
           THEN after = user_states
           ELSE IF data = "res_cancel"
           THEN after = Del(user_states, u)
           ELSE after = [user_states EXCEPT ![u] =
                           [@ EXCEPT !.resolution = ResolutionOf(data)]]

\* ---------------------------------------------------------------- claim C33
\* Run r is in its download-monitoring loop (lines 1292-1303).
Monitoring(r) == runs[r].pc = "communicate"

HoldsDirectory(r) == InFlight(r) /\ runs[r].dir # NoRun.dir

UploadInstalled == <<"downloading_cookies", "cookies_updated">>

\* C35: after every cookie upload that validate_cookies_file accepts and that
\* is installed, cookies_available is true, for every accepted size from 100
\* bytes to 1 MiB; the success message is never sent while cookies are
\* reported unavailable.
C35_InstalledCookiesAvailable ==
    \A u \in cookie_upload_states, cand \in Candidates, copy_ok \in BOOLEAN :
        upload_result(u, TRUE, cand, TRUE, copy_ok).reply = UploadInstalled
            => upload_result(u, TRUE, cand, TRUE, copy_ok).cookies_available

\* ---------------------------------------------------------------- claim C36
\* The statuses by which handle_cookies_upload reports a failed upload
\* (lines 1055 and 1086).
UploadFailureStatus == {"invalid_cookies_file", "error_uploading"}

\* C36: whenever handle_cookies_upload reports an invalid-file or error
\* status for a document, the active cookie file has not been replaced by
\* that document, whatever was handled (a /cancel, a second document of the
\* same admin) while the document was being downloaded.
C36_FailedUploadNotInstalled ==
    \A u \in Users, cand \in Candidates, dl_ok \in BOOLEAN, copy_ok \in BOOLEAN :
        LET res == download_result(u, cand, dl_ok, copy_ok)
        IN (cand \in cookie_downloads[u]
              /\ res.reply[Len(res.reply)] \in UploadFailureStatus)
               => ~res.installed


\* ------------------------------------------------------------------- C37
\* A user is idle: no Session entry, no run of process_video in flight and
\* no handle_batch_upload suspended at one of its awaits.
Idle(u) ==
    /\ u \notin DOMAIN user_states
    /\ \A r \in RunIds : InFlight(r) => runs[r].user # u
    /\ batch_uploads[u] = "none"

\* The directories that exist for user u: the one tempfile.mkdtemp made for
\* the user's batch file (line 1113) and those process_video made under the
\* temp root (lines 1227-1228).
DirectoriesOf(u) ==
    [batch |-> batch_dirs \cap {u}, download |-> {d \in DOMAIN temp_dirs : d[1] = u}]

\* C37: whenever a user has no Session and no pipeline run in flight, no
\* temporary directory made for that user's batch file or download exists,
\* also after a /cancel or /stop in phase waiting_for_batch_resolution.
C37_IdleUserHasNoDirectory ==
    \A u \in Users :
        Idle(u) => DirectoriesOf(u) = [batch |-> {}, download |-> {}]


\* ------------------------------------------------------------------- C38
\* A /stop of the run's user has been answered with "Download stopped" while
\* run r was in flight: the flag is set by stop_command only (line 506), and
\* every start of a run of the user resets it (line 1208), so a flag that is
\* set while r is past its start was set after r started.
StopAcknowledged(r) == Started(r) /\ cancelled(runs[r].user)

\* The files run r has delivered to the chat (send_video, send_document).
Delivered(rec) == rec.videos + rec.documents

RunStep(r) ==
    \/ TaskStep(r)
    \/ \E out \in ProgressOutcomes, partial \in PartialOutputs :
           progress_reply_returns(r, out, partial)
    \/ \E partial \in PartialOutputs : communicate_timeout(r, partial)
    \/ \E output \in DownloadOutputs, probe_ok \in BOOLEAN :
           process_exits(r, output, probe_ok)
    \/ \E ok \in BOOLEAN, probe_ok \in BOOLEAN : cancel_edit_returns(r, ok, probe_ok)
    \/ \E ok \in BOOLEAN : fail_edit_returns(r, ok)
    \/ \E ok \in BOOLEAN : toolarge_edit_returns(r, ok)
    \/ \E ok \in BOOLEAN : uploading_edit_returns(r, ok)
    \/ \E out \in SinkOutcomes, v \in FloodValues : send_video_returns(r, out, v)
    \/ \E out \in SinkOutcomes, v \in FloodValues : success_edit_returns(r, out, v)
    \/ flood_sleep_returns(r)
    \/ \E ok \in BOOLEAN : retry_video_returns(r, ok)
    \/ \E ok \in BOOLEAN : retry_success_edit_returns(r, ok)
    \/ \E ok \in BOOLEAN : send_document_returns(r, ok)
    \/ \E ok \in BOOLEAN : document_edit_returns(r, ok)
    \/ \E ok \in BOOLEAN : upfail_edit_returns(r, ok)

\* The program with `time` bound, for a deployment whose user may download
\* and one whose user is a cookie admin.
InitTimeBoundScheduled ==
    InitWith({c \in Configs : c.allowed # {} /\ c.max = 1}, {Absent}, TRUE,
             {Env(1, TRUE, ShortVideo, FALSE), SlowUploads})

\* The event loop resumes every task whose awaited call has returned, the
\* download subprocess exits, and every awaited call returns or raises: a
\* step of a run that stays possible is taken.  A timeout of wait_for with
\* the flag unset leaves the run where it is.
SpecTimeBoundScheduled ==
    InitTimeBoundScheduled /\ [][NextTimeBound]_vars
        /\ \A r \in RunIds : WF_vars(RunStep(r))

\* The limit check of yt_command (lines 432-436) turns the user away.
AtLimit(u) == active_count(u) >= max_concurrent

====
